---- MODULE Spec2Model ----
(***************************************************************************)
(* Model of src/commands/upload.ts: the upload() workflow of mapbox-utils. *)
(*                                                                         *)
(* upload() reads a file, fetches S3 credentials from MapBox, puts the     *)
(* file on S3, starts processing at MapBox and, when asked to, polls the   *)
(* processing status once a second.  Every await of the code is a pair of  *)
(* actions: the request being issued and the response being handled.       *)
(*                                                                         *)
(* Encodings.  The JSON values the code receives are modelled by what the  *)
(* code does with them:                                                    *)
(*   - `error: string | null` is a string, NULL standing for JS null;      *)
(*   - `progress: number` is an integer number of hundredths (20 is 0.2,   *)
(*     100 is 1.0), UNDEFINED standing for a response without the field;   *)
(*   - an HTTP exchange is its status code, 0 standing for a request that  *)
(*     got no response at all.                                             *)
(***************************************************************************)
EXTENDS Integers, Sequences, FiniteSets, TLC

(* ---------------------------------------------------------------------- *)
(* Bounds and input domains                                                *)
(* ---------------------------------------------------------------------- *)

\* Cap on the number of status queries of one run (the loop has none).
MaxPolls == 3

Names == {"roads"}
Slugs == {"roads-v1", "a.b"}
Usernames == {"yuri", "x/y"}
Tokens == {"pk.tok"}
Buckets == {"tilestream", "b-2"}
Keys == {"_pending/abc", "k 2"}
Ids == {"job1", "job2"}

\* JS null (for `error`) and JS undefined (for `progress`).
NULL == "<null>"
UNDEFINED == -1

\* Value of `result` while upload() has not returned.
NotReturned == 1

\* delay(1000) at line 107.
DelayMs == 1000

\* The literal 1 of `progress < 1`, in hundredths.
ProgressDone == 100

HttpStatuses == {0, 200, 201, 404}
ErrorValues == {NULL, "", "bad file"}
ProgressValues == {UNDEFINED, 20, 60, 100}

(* ---------------------------------------------------------------------- *)
(* Pure functions                                                          *)
(* ---------------------------------------------------------------------- *)

fileUrl_https(bucket, key) == "https://" \o bucket \o ".s3.amazonaws.com/" \o key

\* const fileUrl = (bucket, key) => `http://${bucket}.s3.amazonaws.com/${key}`
fileUrl(bucket, key) == "http://" \o bucket \o ".s3.amazonaws.com/" \o key

\* const credentialsUrl = (username, token) => ...
credentialsUrl(username, token) ==
    "https://api.mapbox.com/uploads/v1/" \o username \o "/credentials?access_token=" \o token

\* const uploadUrl = (username, token) => ...
uploadUrl(username, token) ==
    "https://api.mapbox.com/uploads/v1/" \o username \o "?access_token=" \o token

\* const uploadStatusUrl = (username, uploadId, token) => ...
uploadStatusUrl(username, uploadId, token) ==
    "https://api.mapbox.com/uploads/v1/" \o username \o "/" \o uploadId
        \o "?access_token=" \o token

tilesetId_slugFirst(username, slug) == slug \o "." \o username

\* tileset: `${username}.${slug}` in startUpload
tilesetId(username, slug) == username \o "." \o slug

Truthy_onlyNull(v) == v = NULL

\* JS truthiness of a `string | null` value, as in `if (processStatus.error)`:
\* null and the empty string are falsy.
Truthy(v) == v /= NULL /\ v /= ""

\* axios rejects the promise of a request that got no response or whose
\* status is outside 2xx (its default validateStatus).
AxiosRejects(status) == status = 0 \/ status < 200 \/ status >= 300

LoopCondition_le(p) == p /= UNDEFINED /\ p <= ProgressDone

\* while (progress !== undefined && progress < 1)
LoopCondition(p) == p /= UNDEFINED /\ p < ProgressDone

(* ---------------------------------------------------------------------- *)
(* Response bodies                                                         *)
(* ---------------------------------------------------------------------- *)

NoCredentials == [bucket |-> "", key |-> ""]
NoProcessing == [id |-> "", progress |-> UNDEFINED, error |-> NULL, complete |-> FALSE]
NoUpload == [url |-> "", tileset |-> "", name |-> ""]
NoPut == [Bucket |-> "", Key |-> ""]
NoResponse == [status |-> -1]

\* Credentials: the fields that reach the requests' parameters.
CredentialsData == [bucket : Buckets, key : Keys]

\* UploadProcessing, as returned by the start request.
StartData ==
    { [id |-> i, progress |-> d[1], error |-> d[2], complete |-> d[3]] :
        i \in Ids,
        d \in { <<0, NULL, FALSE>>, <<100, NULL, TRUE>>, <<0, "bad file", FALSE>> } }

\* ProcessStatus, as returned by a status query.
StatusData == [id : Ids, progress : ProgressValues, error : ErrorValues]

(* ---------------------------------------------------------------------- *)
(* State                                                                   *)
(* ---------------------------------------------------------------------- *)

VARIABLES
    args,         \* the arguments of upload()
    pc,           \* position of upload() in its body
    file,         \* "unread", "read" or "error": outcome of fs.readFileSync
    credentials,  \* const credentials (line 74)
    processing,   \* const processing (line 82)
    id,           \* const id (line 92)
    progress,     \* let progress (line 95)
    result,       \* the value upload() returned
    calls,        \* the external calls issued so far, in order
    credResp,     \* the response to the credentials request
    putParams,    \* the parameters of s3.putObject
    putOutcome,   \* "none", "ok" or "err": what the putObject callback got
    startBody,    \* the Upload body posted by startUpload
    startResp,    \* the response to the start request
    statusUrls,   \* the URLs of the status queries, in order
    statusIds,    \* the uploadId of each status query, in order
    polls,        \* the responses to the status queries, in order
    delays        \* the delay(ms) calls made, in order

vars == << args, pc, file, credentials, processing, id, progress, result, calls,
           credResp, putParams, putOutcome, startBody, startResp,
           statusUrls, statusIds, polls, delays >>

locals == << credentials, processing, id, progress >>
history == << credResp, putParams, putOutcome, startBody, startResp,
              statusUrls, statusIds, polls, delays >>

Init ==
    /\ args \in [ name : Names, slug : Slugs, username : Usernames,
                  token : Tokens, awaitProcessing : BOOLEAN ]
    /\ pc = "readFile"
    /\ file = "unread"
    /\ credentials = NoCredentials
    /\ processing = NoProcessing
    /\ id = ""
    /\ progress = UNDEFINED
    /\ result = NotReturned
    /\ calls = << >>
    /\ credResp = NoResponse
    /\ putParams = NoPut
    /\ putOutcome = "none"
    /\ startBody = NoUpload
    /\ startResp = NoResponse
    /\ statusUrls = << >>
    /\ statusIds = << >>
    /\ polls = << >>
    /\ delays = << >>

Catch_returns0 ==
    /\ result' = 0
    /\ pc' = "done"

\* catch (ex) { console.error(ex.message); return -1; }
Catch ==
    /\ result' = -1
    /\ pc' = "done"

(* ---------------------------------------------------------------------- *)
(* upload(): one action per step                                           *)
(* ---------------------------------------------------------------------- *)

ReadFile_swallow ==
    /\ pc = "readFile"
    /\ \E ok \in BOOLEAN :
        /\ file' = IF ok THEN "read" ELSE "error"
        /\ pc' = "fetchCredentials"
        /\ UNCHANGED result
    /\ UNCHANGED << args, locals, calls, history >>

\* const file = fs.readFileSync(source): returns the bytes or throws.
ReadFile ==
    /\ pc = "readFile"
    /\ \E ok \in BOOLEAN :
        IF ok
        THEN /\ file' = "read"
             /\ pc' = "fetchCredentials"
             /\ UNCHANGED result
        ELSE /\ file' = "error"
             /\ Catch
    /\ UNCHANGED << args, locals, calls, history >>

\* fetchCredentials: const credentials = await axios.post(url) is issued.
FetchCredentialsRequest ==
    /\ pc = "fetchCredentials"
    /\ calls' = Append(calls, "credentials")
    /\ pc' = "awaitCredentials"
    /\ UNCHANGED << args, file, locals, result, history >>

FetchCredentialsResponse_nocheck ==
    /\ pc = "awaitCredentials"
    /\ \E status \in HttpStatuses, data \in CredentialsData :
        /\ credResp' = [status |-> status]
        /\ IF AxiosRejects(status)
           THEN /\ Catch
                /\ UNCHANGED credentials
           ELSE /\ credentials' = data
                /\ pc' = "uploadToS3"
                /\ UNCHANGED result
    /\ UNCHANGED << args, file, processing, id, progress, calls, putParams,
                    putOutcome, startBody, startResp, statusUrls, statusIds,
                    polls, delays >>

FetchCredentialsResponse_retry ==
    /\ pc = "awaitCredentials"
    /\ \E status \in HttpStatuses, data \in CredentialsData :
        /\ credResp' = [status |-> status]
        /\ IF AxiosRejects(status) \/ status /= 200
           THEN /\ pc' = "fetchCredentials"
                /\ UNCHANGED << credentials, result >>
           ELSE /\ credentials' = data
                /\ pc' = "uploadToS3"
                /\ UNCHANGED result
    /\ UNCHANGED << args, file, processing, id, progress, calls, putParams,
                    putOutcome, startBody, startResp, statusUrls, statusIds,
                    polls, delays >>

\* fetchCredentials: the request completes; status !== 200 throws.
FetchCredentialsResponse ==
    /\ pc = "awaitCredentials"
    /\ \E status \in HttpStatuses, data \in CredentialsData :
        /\ credResp' = [status |-> status]
        /\ IF AxiosRejects(status) \/ status /= 200
           THEN /\ Catch
                /\ UNCHANGED credentials
           ELSE /\ credentials' = data
                /\ pc' = "uploadToS3"
                /\ UNCHANGED result
    /\ UNCHANGED << args, file, processing, id, progress, calls, putParams,
                    putOutcome, startBody, startResp, statusUrls, statusIds,
                    polls, delays >>

\* uploadToS3: s3.putObject({Body, Bucket, Key}, callback) is called.
PutObjectCall ==
    /\ pc = "uploadToS3"
    /\ calls' = Append(calls, "putObject")
    /\ putParams' = [Bucket |-> credentials.bucket, Key |-> credentials.key]
    /\ pc' = "awaitPutObject"
    /\ UNCHANGED << args, file, locals, result, credResp, putOutcome, startBody,
                    startResp, statusUrls, statusIds, polls, delays >>

PutObjectCallback_ignoreErr ==
    /\ pc = "awaitPutObject"
    /\ \E err \in BOOLEAN :
        /\ putOutcome' = IF err THEN "err" ELSE "ok"
        /\ pc' = "startUpload"
    /\ UNCHANGED << args, file, locals, result, calls, credResp, putParams,
                    startBody, startResp, statusUrls, statusIds, polls, delays >>

\* uploadToS3: (err, data) => { if (err) throw err; resolve(data); }
\* The callback runs outside the promise's executor, so its throw does not
\* reject the promise: the promise stays pending and upload() never resumes.
\* The exception itself either reaches the process as an uncaught exception
\* ("crashed") or is swallowed by the caller of the callback ("hung").
PutObjectCallback ==
    /\ pc = "awaitPutObject"
    /\ \E err \in BOOLEAN :
        IF err
        THEN /\ putOutcome' = "err"
             /\ \E outcome \in {"crashed", "hung"} : pc' = outcome
        ELSE /\ putOutcome' = "ok"
             /\ pc' = "startUpload"
    /\ UNCHANGED << args, file, locals, result, calls, credResp, putParams,
                    startBody, startResp, statusUrls, statusIds, polls, delays >>

\* startUpload: the Upload body is built and axios.post is issued.
StartUploadRequest ==
    /\ pc = "startUpload"
    /\ calls' = Append(calls, "start")
    /\ startBody' = [ url |-> fileUrl(credentials.bucket, credentials.key),
                      tileset |-> tilesetId(args.username, args.slug),
                      name |-> args.name ]
    /\ pc' = "awaitStart"
    /\ UNCHANGED << args, file, locals, result, credResp, putParams, putOutcome,
                    startResp, statusUrls, statusIds, polls, delays >>

StartUploadResponse_alwaysPoll ==
    /\ pc = "awaitStart"
    /\ \E status \in HttpStatuses, data \in StartData :
        /\ startResp' = [status |-> status]
        /\ IF AxiosRejects(status) \/ status /= 201
           THEN /\ Catch
                /\ UNCHANGED << processing, id, progress >>
           ELSE /\ processing' = data
                /\ id' = data.id
                /\ progress' = 0
                /\ pc' = "loop"
                /\ UNCHANGED result
    /\ UNCHANGED << args, file, credentials, calls, credResp, putParams,
                    putOutcome, startBody, statusUrls, statusIds, polls, delays >>

StartUploadResponse_nocheck ==
    /\ pc = "awaitStart"
    /\ \E status \in HttpStatuses, data \in StartData :
        /\ startResp' = [status |-> status]
        /\ IF AxiosRejects(status)
           THEN /\ Catch
                /\ UNCHANGED << processing, id, progress >>
           ELSE /\ processing' = data
                /\ id' = data.id
                /\ IF args.awaitProcessing
                   THEN /\ progress' = 0
                        /\ pc' = "loop"
                        /\ UNCHANGED result
                   ELSE /\ result' = 0
                        /\ pc' = "done"
                        /\ UNCHANGED progress
    /\ UNCHANGED << args, file, credentials, calls, credResp, putParams,
                    putOutcome, startBody, statusUrls, statusIds, polls, delays >>

StartUploadResponse_startProgress ==
    /\ pc = "awaitStart"
    /\ \E status \in HttpStatuses, data \in StartData :
        /\ startResp' = [status |-> status]
        /\ IF AxiosRejects(status) \/ status /= 201
           THEN /\ Catch
                /\ UNCHANGED << processing, id, progress >>
           ELSE /\ processing' = data
                /\ id' = data.id
                /\ IF args.awaitProcessing
                   THEN /\ progress' = data.progress
                        /\ pc' = "loop"
                        /\ UNCHANGED result
                   ELSE /\ result' = 0
                        /\ pc' = "done"
                        /\ UNCHANGED progress
    /\ UNCHANGED << args, file, credentials, calls, credResp, putParams,
                    putOutcome, startBody, statusUrls, statusIds, polls, delays >>

\* startUpload: the request completes; status !== 201 throws.  Then
\* const id = processing.id and the branch on awaitProcessing.
StartUploadResponse ==
    /\ pc = "awaitStart"
    /\ \E status \in HttpStatuses, data \in StartData :
        /\ startResp' = [status |-> status]
        /\ IF AxiosRejects(status) \/ status /= 201
           THEN /\ Catch
                /\ UNCHANGED << processing, id, progress >>
           ELSE /\ processing' = data
                /\ id' = data.id
                /\ IF args.awaitProcessing
                   THEN /\ progress' = 0
                        /\ pc' = "loop"
                        /\ UNCHANGED result
                   ELSE /\ result' = 0
                        /\ pc' = "done"
                        /\ UNCHANGED progress
    /\ UNCHANGED << args, file, credentials, calls, credResp, putParams,
                    putOutcome, startBody, statusUrls, statusIds, polls, delays >>

\* The loop condition holds: getUploadStatus(username, id, token) is issued.
GetUploadStatusRequest ==
    /\ pc = "loop"
    /\ LoopCondition(progress)
    /\ Len(statusIds) < MaxPolls
    /\ calls' = Append(calls, "status")
    /\ statusIds' = Append(statusIds, id)
    /\ statusUrls' = Append(statusUrls, uploadStatusUrl(args.username, id, args.token))
    /\ pc' = "awaitStatus"
    /\ UNCHANGED << args, file, locals, result, credResp, putParams, putOutcome,
                    startBody, startResp, polls, delays >>

\* The loop condition fails: processSpinner.succeed(...); return 0.
LoopExit ==
    /\ pc = "loop"
    /\ ~ LoopCondition(progress)
    /\ result' = 0
    /\ pc' = "done"
    /\ UNCHANGED << args, file, locals, calls, history >>

GetUploadStatusResponse_nocheck ==
    /\ pc = "awaitStatus"
    /\ \E status \in HttpStatuses, data \in StatusData :
        /\ status /= 200 =>
              data = [id |-> id, progress |-> UNDEFINED, error |-> NULL]
        /\ polls' = Append(polls, [ status |-> status, id |-> data.id,
                                     progress |-> data.progress,
                                     error |-> data.error ])
        /\ IF AxiosRejects(status)
           THEN /\ Catch
                /\ UNCHANGED progress
           ELSE IF Truthy(data.error)
           THEN /\ result' = -1
                /\ pc' = "done"
                /\ UNCHANGED progress
           ELSE /\ progress' = data.progress
                /\ pc' = "delay"
                /\ UNCHANGED result
    /\ UNCHANGED << args, file, credentials, processing, id, calls, credResp,
                    putParams, putOutcome, startBody, startResp, statusUrls,
                    statusIds, delays >>

GetUploadStatusResponse_takesId ==
    /\ pc = "awaitStatus"
    /\ \E status \in HttpStatuses, data \in StatusData :
        /\ status /= 200 =>
              data = [id |-> id, progress |-> UNDEFINED, error |-> NULL]
        /\ polls' = Append(polls, [ status |-> status, id |-> data.id,
                                     progress |-> data.progress,
                                     error |-> data.error ])
        /\ IF AxiosRejects(status) \/ status /= 200
           THEN /\ Catch
                /\ UNCHANGED << progress, id >>
           ELSE IF Truthy(data.error)
           THEN /\ result' = -1
                /\ pc' = "done"
                /\ UNCHANGED << progress, id >>
           ELSE /\ progress' = data.progress
                /\ id' = data.id
                /\ pc' = "delay"
                /\ UNCHANGED result
    /\ UNCHANGED << args, file, credentials, processing, calls, credResp,
                    putParams, putOutcome, startBody, startResp, statusUrls,
                    statusIds, delays >>

\* getUploadStatus completes: status !== 200 throws; a truthy error returns
\* -1; otherwise progress = processStatus.progress and the delay starts.
GetUploadStatusResponse ==
    /\ pc = "awaitStatus"
    /\ \E status \in HttpStatuses, data \in StatusData :
        /\ status /= 200 =>
              data = [id |-> id, progress |-> UNDEFINED, error |-> NULL]
        /\ polls' = Append(polls, [ status |-> status, id |-> data.id,
                                     progress |-> data.progress,
                                     error |-> data.error ])
        /\ IF AxiosRejects(status) \/ status /= 200
           THEN /\ Catch
                /\ UNCHANGED progress
           ELSE IF Truthy(data.error)
           THEN /\ result' = -1
                /\ pc' = "done"
                /\ UNCHANGED progress
           ELSE /\ progress' = data.progress
                /\ pc' = "delay"
                /\ UNCHANGED result
    /\ UNCHANGED << args, file, credentials, processing, id, calls, credResp,
                    putParams, putOutcome, startBody, startResp, statusUrls,
                    statusIds, delays >>

\* await delay(1000), the last statement of the loop body.
Delay ==
    /\ pc = "delay"
    /\ delays' = Append(delays, DelayMs)
    /\ pc' = "loop"
    /\ UNCHANGED << args, file, locals, result, calls, credResp, putParams,
                    putOutcome, startBody, startResp, statusUrls, statusIds, polls >>

Next ==
    \/ ReadFile
    \/ FetchCredentialsRequest
    \/ FetchCredentialsResponse
    \/ PutObjectCall
    \/ PutObjectCallback
    \/ StartUploadRequest
    \/ StartUploadResponse
    \/ GetUploadStatusRequest
    \/ LoopExit
    \/ GetUploadStatusResponse
    \/ Delay

Spec == Init /\ [][Next]_vars

\* upload() under the scheduling of the event loop with every external call
\* completing: a step that can be taken is eventually taken.
FairSpec == Init /\ [][Next]_vars /\ WF_vars(Next)

TypeOK ==
    /\ pc \in { "readFile", "fetchCredentials", "awaitCredentials", "uploadToS3",
                "awaitPutObject", "startUpload", "awaitStart", "loop",
                "awaitStatus", "delay", "done", "crashed", "hung" }
    /\ result \in {NotReturned, 0, -1}
    /\ (pc = "done") <=> (result /= NotReturned)

(* ---------------------------------------------------------------------- *)
(* Vocabulary of the properties                                            *)
(* ---------------------------------------------------------------------- *)

Issued(op) == \E i \in 1..Len(calls) : calls[i] = op

Returned == pc = "done"

LastPoll == polls[Len(polls)]

\* progress >= 1, for a response that carries a progress.
AtLeastOne(p) == p /= UNDEFINED /\ p >= ProgressDone

\* The job was started: credentials 200, put-object succeeded, start 201.
Started ==
    /\ credResp.status = 200
    /\ putOutcome = "ok"
    /\ startResp.status = 201

\* Every poll response so far is a 200 with a null error.
ErrorFreePolls ==
    \A i \in 1..Len(polls) : polls[i].status = 200 /\ polls[i].error = NULL

(* ---------------------------------------------------------------------- *)
(* Properties                                                              *)
(* ---------------------------------------------------------------------- *)

\* C1: the external calls of a run are issued in the order credentials,
\* putObject, start (then only status queries), and the start request is
\* issued only after the putObject callback reported success.
C1_StrictOrder ==
    /\ \A i \in 1..Len(calls) :
          calls[i] = CASE i = 1 -> "credentials"
                       [] i = 2 -> "putObject"
                       [] i = 3 -> "start"
                       [] OTHER -> "status"
    /\ Issued("start") => putOutcome = "ok"

C1_Witness ==
    /\ Returned /\ result = 0
    /\ Len(calls) >= 4
    /\ calls[1] = "credentials" /\ calls[2] = "putObject" /\ calls[3] = "start"

\* C2: when the putObject callback gets an error, upload() returns -1 and
\* issues neither the start request nor a status query.
C2_PutErrorReturnsFailure ==
    putOutcome = "err" =>
        /\ Returned /\ result = -1
        /\ ~ Issued("start") /\ ~ Issued("status")

\* C3: a credentials response other than a 200 (no response included) makes
\* upload() return -1 with the credentials request as its only external call.
C3_CredentialFailureStops ==
    (credResp /= NoResponse /\ credResp.status /= 200) =>
        /\ Returned /\ result = -1
        /\ calls = << "credentials" >>
        /\ putOutcome = "none" /\ polls = << >>

C3_Witness ==
    /\ credResp.status = 201
    /\ Returned /\ result = -1

\* C4: a start response other than a 201 makes upload() return -1 without
\* any status query, whatever awaitProcessing is.
C4_StartFailureSkipsPolling ==
    (startResp /= NoResponse /\ startResp.status /= 201) =>
        /\ Returned /\ result = -1
        /\ ~ Issued("status")
        /\ statusIds = << >> /\ polls = << >> /\ delays = << >>

C4_Witness ==
    /\ startResp.status = 200
    /\ args.awaitProcessing
    /\ Returned /\ result = -1

C6_QueriesUntilProgressOne ==
    (args.awaitProcessing /\ Len(polls) >= 1 /\ ErrorFreePolls) =>
        /\ \A i \in 1..Len(polls) :
              AtLeastOne(polls[i].progress) =>
                  i = Len(polls) /\ Len(statusIds) = i
        /\ Returned => (result = 0 /\ AtLeastOne(LastPoll.progress))

\* C6 (amended): with awaitProcessing and only error-free poll responses, no
\* status query follows the first response whose progress is missing or
\* >= 1, and when upload() returns it returns 0 right after such a response.
C6_QueriesUntilDone ==
    (args.awaitProcessing /\ Len(polls) >= 1 /\ ErrorFreePolls) =>
        /\ \A i \in 1..Len(polls) :
              (polls[i].progress = UNDEFINED \/ polls[i].progress >= ProgressDone) =>
                  i = Len(polls) /\ Len(statusIds) = i
        /\ Returned =>
              /\ result = 0
              /\ (LastPoll.progress = UNDEFINED \/ LastPoll.progress >= ProgressDone)

C6_Witness ==
    /\ args.awaitProcessing /\ ErrorFreePolls
    /\ Len(polls) = 3 /\ Len(statusIds) = 3
    /\ polls[1].progress = 20 /\ polls[2].progress = 60 /\ polls[3].progress = 100
    /\ Returned /\ result = 0

\* C7: without awaitProcessing, a 201 from the start request makes upload()
\* return 0 at once: no status query and no delay.
C7_NoWaitReturnsAtOnce ==
    (~ args.awaitProcessing /\ startResp.status = 201) =>
        /\ Returned /\ result = 0
        /\ calls = << "credentials", "putObject", "start" >>
        /\ statusIds = << >> /\ polls = << >> /\ delays = << >>

C7_Witness ==
    /\ ~ args.awaitProcessing
    /\ startResp.status = 201
    /\ Returned /\ result = 0

C9_ReadFailureBeforeNetwork ==
    file = "error" =>
        /\ Returned /\ result = -1
        /\ calls = << >>
        /\ credResp = NoResponse /\ putOutcome = "none" /\ startResp = NoResponse

C9_Witness ==
    /\ file = "error"
    /\ Returned /\ result = -1

\* C10: the url of the posted Upload body is http://{bucket}.s3.amazonaws.com/{key}
\* for the bucket and key of the credentials response, which are the Bucket
\* and Key putObject was called with.
C10_ObjectUrl ==
    Issued("start") =>
        /\ credentials \in CredentialsData
        /\ startBody.url =
              "http://" \o credentials.bucket \o ".s3.amazonaws.com/" \o credentials.key
        /\ putParams = [Bucket |-> credentials.bucket, Key |-> credentials.key]

C10_Witness ==
    /\ Issued("start")
    /\ credentials = [bucket |-> "b-2", key |-> "k 2"]
    /\ startBody.url = "http://b-2.s3.amazonaws.com/k 2"

\* C11: the tileset of the posted Upload body is the username, a dot and the
\* slug given to upload(), unchanged, and its name is the name given to
\* upload().
C11_TilesetIdentifier ==
    Issued("start") =>
        /\ startBody.tileset = args.username \o "." \o args.slug
        /\ startBody.name = args.name

C11_Witness ==
    /\ Issued("start")
    /\ args.username = "x/y" /\ args.slug = "a.b"
    /\ startBody.tileset = "x/y.a.b"

\* C12: a run that has returned after n >= 1 status queries has made exactly
\* n-1 delays: no delay follows the last response.
C12_WaitsBetweenQueriesOnly ==
    (Returned /\ Len(statusIds) >= 1) => Len(delays) = Len(statusIds) - 1

\* The cap on status queries is reached with the loop condition still true:
\* no terminal poll response has arrived within MaxPolls queries.
PollsExhausted ==
    /\ pc = "loop"
    /\ LoopCondition(progress)
    /\ Len(statusIds) >= MaxPolls

\* C13: when every external call completes and, when polling, a terminal
\* poll response arrives, upload() eventually returns (0 or -1).
C13_EventuallyReturns ==
    <>( (Returned /\ result \in {0, -1}) \/ PollsExhausted )

\* C14: a status response other than a 200 (no response included) is the
\* last one: upload() has returned -1 and no status query follows it,
\* whatever progress the earlier responses carried.
C14_StatusFailureStops ==
    \A i \in 1..Len(polls) :
        polls[i].status /= 200 =>
            /\ i = Len(polls) /\ Len(statusIds) = i
            /\ Returned /\ result = -1

C14_Witness ==
    /\ Len(polls) = 2
    /\ polls[1].status = 200 /\ polls[1].progress = 60
    /\ polls[2].status = 201
    /\ Returned /\ result = -1

\* C15: every status query is made with the id of the start response, also
\* after poll responses that carry another id.
C15_StableJobId ==
    \A i \in 1..Len(statusIds) :
        /\ statusIds[i] = processing.id
        /\ statusUrls[i] =
              "https://api.mapbox.com/uploads/v1/" \o args.username \o "/"
                  \o processing.id \o "?access_token=" \o args.token

C15_Witness ==
    /\ Len(statusIds) >= 2
    /\ processing.id = "job1"
    /\ polls[1].id = "job2"
    /\ statusIds[2] = "job1"

\* C16: the credentials request, the putObject call and the start request
\* are each issued at most once in a run.
C16_NoRetries ==
    \A op \in {"credentials", "putObject", "start"} :
        Cardinality({ i \in 1..Len(calls) : calls[i] = op }) <= 1

C16_Witness ==
    /\ Returned /\ result = -1
    /\ startResp.status = 404
    /\ calls = << "credentials", "putObject", "start" >>

\* C17: with awaitProcessing and a 201 from the start request, the loop
\* starts from progress 0 whatever the start response carries, and upload()
\* does not return before a status query has been issued.
C17_AtLeastOneQuery ==
    (args.awaitProcessing /\ startResp.status = 201) =>
        /\ (pc = "loop" /\ statusIds = << >>) => progress = 0
        /\ Returned => Len(statusIds) >= 1

C17_Witness ==
    /\ args.awaitProcessing
    /\ processing.progress = 100 /\ processing.complete
    /\ Len(statusIds) >= 1
    /\ Returned /\ result = 0

====
